---- MODULE Spec2Model ----
(***************************************************************************)
(* Model of packages/build-scripts/src/utils/loadConfig.ts:                *)
(*   mergeModeConfig, getUserConfig, loadConfig, executeTypescriptModule.  *)
(*                                                                         *)
(* JavaScript strings (paths, error messages, stacks) are sequences of     *)
(* one-character strings, so that endsWith, replace and concatenation are  *)
(* computed and not assumed.  JavaScript objects are functions from field  *)
(* names to values; a missing field is a name outside the DOMAIN.          *)
(***************************************************************************)
EXTENDS Integers, Sequences, FiniteSets, TLC

VARIABLES
  mpc,        \* mergeModeConfig driver: "start" | "done" | "off"
  mMode,      \* argument `mode` of mergeModeConfig
  mConfig,    \* argument `userConfig` of mergeModeConfig (as passed)
  mOut,       \* outcome of the call: result and the argument object afterwards
  fs,         \* the filesystem: path -> content of each existing file
  requireCache, \* the process-wide module cache: path -> loaded module
  pkg,        \* the package manifest's `type`: "module" | "commonjs" | "none"
  src,        \* path of the project's configuration file
  pc,         \* position of the getUserConfig call in progress
  call,       \* locals of the getUserConfig / loadConfig / execute call
  ncalls,     \* number of getUserConfig calls started in this process
  procs       \* concurrent executeTypescriptModule calls: id -> locals

mergeVars == <<mpc, mMode, mConfig, mOut>>

loadVars == <<fs, requireCache, pkg, src, pc, call, ncalls>>

vars == <<mpc, mMode, mConfig, mOut, fs, requireCache, pkg, src, pc, call,
          ncalls, procs>>

----
\* Bounds of the model.

\* longest base plugins list
MaxBase == 2
\* longest plugins list of a mode override
MaxOv == 2

SeqsUpTo(S, n) == UNION {[1..k -> S] : k \in 0..n}

----
\* JavaScript values.

\* the value `undefined`
Undefined == [undefined |-> TRUE]

IsUndefined(v) == "undefined" \in DOMAIN v

Has(obj, k) == k \in DOMAIN obj

\* { ...a, ...b }
Spread(a, b) ==
  [k \in (DOMAIN a) \cup (DOMAIN b) |-> IF k \in DOMAIN b THEN b[k] ELSE a[k]]

\* const { [key]: _, ...rest } = obj
Rest(obj, key) == [k \in (DOMAIN obj) \ {key} |-> obj[k]]

\* Array.prototype.indexOf, 1-based; 0 stands for JavaScript's -1
IndexOf(seq, x) ==
  IF \E i \in DOMAIN seq : seq[i] = x
    THEN CHOOSE i \in DOMAIN seq :
           /\ seq[i] = x
           /\ \A j \in DOMAIN seq : seq[j] = x => i <= j
    ELSE 0

----
\* Plugin entries: a bare identifier (a string) or a pair [identifier, options].

Bare(name) == [isArray |-> FALSE, str |-> name]

Pair(name, opts) == [isArray |-> TRUE, arr |-> <<name, opts>>]

\* Array.isArray(pluginInfo) ? pluginInfo[0] : pluginInfo
PluginKey(pluginInfo) ==
  IF pluginInfo.isArray THEN pluginInfo.arr[1] ELSE pluginInfo.str

\* userPlugins.map(...): the identifiers of the base list, computed once
PluginKeys(userPlugins) ==
  [i \in DOMAIN userPlugins |-> PluginKey(userPlugins[i])]

\* ApplyPlugin with the test `pluginIndex > 0` of a 0-based index: a match at
\* the first position is pushed instead of overwritten
ApplyPluginSkipFirst(userPlugins, pluginKeys, pluginInfo) ==
  LET pluginIndex == IndexOf(pluginKeys, PluginKey(pluginInfo))
  IN IF pluginIndex > 1
       THEN [userPlugins EXCEPT ![pluginIndex] = pluginInfo]
       ELSE Append(userPlugins, pluginInfo)

\* one iteration of plugins.forEach: overwrite at the index found in
\* pluginKeys, or push
ApplyPlugin(userPlugins, pluginKeys, pluginInfo) ==
  LET pluginIndex == IndexOf(pluginKeys, PluginKey(pluginInfo))
  IN IF pluginIndex > 0
       THEN [userPlugins EXCEPT ![pluginIndex] = pluginInfo]
       ELSE Append(userPlugins, pluginInfo)

RECURSIVE ForEachPlugin(_, _, _, _)
ForEachPlugin(plugins, k, pluginKeys, userPlugins) ==
  IF k > Len(plugins)
    THEN userPlugins
    ELSE ForEachPlugin(plugins, k + 1, pluginKeys,
                       ApplyPlugin(userPlugins, pluginKeys, plugins[k]))

\* the reconciled list for a base list and an override's plugins array
ReconcilePlugins(basePlugins, plugins) ==
  ForEachPlugin(plugins, 1, PluginKeys(basePlugins), basePlugins)

\* CopyPlugins without the spread: userPlugins is userConfig.plugins itself
CopyPluginsAliased(list) == [items |-> list, aliased |-> TRUE]

\* const userPlugins = [...userConfig.plugins]: a fresh array.  `aliased`
\* says whether writes to userPlugins are writes to userConfig.plugins.
CopyPlugins(list) == [items |-> list, aliased |-> FALSE]

\* the guard of mergeModeConfig
ModeSelected(mode, userConfig) ==
  /\ Has(userConfig, "modeConfig")
  /\ mode # ""
  /\ Has(userConfig.modeConfig, mode)

\* { ...userConfig, ...basicConfig, plugins: userPlugins }
MergedObject(userConfig, basicConfig, userPlugins) ==
  Spread(Spread(userConfig, basicConfig), [plugins |-> userPlugins])

\* mergeModeConfig(mode, userConfig).  threw: a TypeError from reading a
\* property of undefined; value: the returned object; inputAfter: the
\* argument object as it is after the call.
MergeModeConfig(mode, userConfig) ==
  IF IsUndefined(userConfig)
    THEN [threw |-> TRUE, value |-> Undefined, inputAfter |-> userConfig]
    ELSE IF ModeSelected(mode, userConfig)
      THEN LET modeCfg == userConfig.modeConfig[mode]
               basicConfig == Rest(modeCfg, "plugins")
               userPlugins == CopyPlugins(userConfig.plugins)
               finalPlugins ==
                 IF Has(modeCfg, "plugins")
                   THEN ReconcilePlugins(userPlugins.items, modeCfg.plugins)
                   ELSE userPlugins.items
           IN [threw |-> FALSE,
               value |-> MergedObject(userConfig, basicConfig, finalPlugins),
               inputAfter |-> IF userPlugins.aliased
                                THEN [userConfig EXCEPT !.plugins = finalPlugins]
                                ELSE userConfig]
      ELSE [threw |-> FALSE, value |-> userConfig, inputAfter |-> userConfig]

----
\* Inputs of mergeModeConfig.

PluginEntries ==
  {Bare("A"), Pair("B", 1), Pair("B", 2), Bare("C"), Pair("C", 1)}

Modes == {"", "dev", "prod"}

OptionalField(name, values) ==
  {<<>>} \cup {[k \in {name} |-> v] : v \in values}

\* a mode override: optional plugins array, optional outDir
Overrides ==
  {Spread(p, o) :
     p \in OptionalField("plugins", SeqsUpTo(PluginEntries, MaxOv)),
     o \in OptionalField("outDir", {[b |-> 2]})}

\* a user configuration: plugins, optional outDir, optional modeConfig with
\* an entry for mode "dev"
UserConfigs ==
  {Spread(Spread([plugins |-> ps], o), m) :
     ps \in SeqsUpTo(PluginEntries, MaxBase),
     o \in OptionalField("outDir", {[a |-> 1]}),
     m \in OptionalField("modeConfig", {[dev |-> ov] : ov \in Overrides})}

NoOutcome == [threw |-> FALSE, value |-> Undefined, inputAfter |-> Undefined]

----
\* JavaScript strings as sequences of characters.

\* String.prototype.endsWith
EndsWith(s, suffix) ==
  /\ Len(s) >= Len(suffix)
  /\ SubSeq(s, Len(s) - Len(suffix) + 1, Len(s)) = suffix

MatchesAt(s, i, pat) ==
  /\ i + Len(pat) - 1 <= Len(s)
  /\ SubSeq(s, i, i + Len(pat) - 1) = pat

\* number of positions of s at which pat occurs
CountOcc(s, pat) == Cardinality({i \in 1..Len(s) : MatchesAt(s, i, pat)})

\* String.prototype.replace(pattern: string, replacement): the first
\* occurrence only
Replace(s, pat, rep) ==
  IF \E i \in 1..Len(s) : MatchesAt(s, i, pat)
    THEN LET i == CHOOSE k \in 1..Len(s) :
                    /\ MatchesAt(s, k, pat)
                    /\ \A j \in 1..Len(s) : MatchesAt(s, j, pat) => k <= j
         IN SubSeq(s, 1, i - 1) \o rep \o SubSeq(s, i + Len(pat), Len(s))
    ELSE s

RECURSIVE Repeat(_, _)
Repeat(s, n) == IF n = 0 THEN <<>> ELSE s \o Repeat(s, n - 1)

\* path.isAbsolute (POSIX)
IsAbsolute(p) == Len(p) > 0 /\ p[1] = "/"

----
\* Paths, file contents, modules and errors.

\* most mentions of the module's own path in the message of an error it throws
MaxOcc == 2
\* most getUserConfig calls in one process
MaxCalls == 2

Suffixes ==
  {<<".", "j", "s">>, <<".", "m", "j", "s">>, <<".", "c", "j", "s">>,
   <<".", "t", "s">>, <<".", "m", "t", "s">>, <<".", "c", "t", "s">>,
   <<".", "j", "s", "o", "n">>, <<".", "y", "m", "l">>}

\* configuration file paths: absolute (/c.ts) and relative to the working
\* directory (c.ts)
ConfigPaths == {pre \o <<"c">> \o suf : pre \in {<<"/">>, <<>>}, suf \in Suffixes}

\* a path that names no file
MissingPath == <<"/", "n", ".", "j", "s">>

\* a module loaded earlier by the process, unrelated to the configuration
OtherModule == <<"/", "o", ".", "j", "s">>

PkgTypes == {"module", "commonjs", "none"}

\* the configurations a file can describe
LoadedConfig(id) ==
  IF id = "moded"
    THEN [plugins |-> <<Bare("A")>>,
          modeConfig |-> [dev |-> [plugins |-> <<Bare("C")>>]]]
    ELSE [plugins |-> <<Bare("A")>>]

ConfigIds == {"plain", "moded"}

\* What a file holds.  kind "exports": data or a script that evaluates to a
\* configuration (as its default export, or as its whole export value);
\* "throws": a script that throws while it is evaluated, an Error (or a bare
\* string) whose text mentions the script's own path occ times; "syntax":
\* text that neither parses nor compiles.  format: "src" for a source file,
\* "esm"/"cjs" for compiled code.
Content(kind, hasDefault, cfg, isError, occ) ==
  [kind |-> kind, hasDefault |-> hasDefault, cfg |-> cfg, isError |-> isError,
   occ |-> occ, format |-> "src"]

SyntaxContent == Content("syntax", FALSE, "plain", TRUE, 0)

DataContents == {Content("exports", FALSE, c, TRUE, 0) : c \in ConfigIds}

ScriptContents ==
  {Content("exports", d, c, TRUE, 0) : d \in BOOLEAN, c \in ConfigIds}
    \cup {Content("throws", FALSE, "plain", TRUE, n) : n \in 0..MaxOcc}
    \cup {Content("throws", FALSE, "plain", FALSE, 1)}

ContentsFor(path) ==
  IF EndsWith(path, <<".", "j", "s", "o", "n">>) \/ EndsWith(path, <<".", "y", "m", "l">>)
    THEN DataContents \cup {SyntaxContent}
    ELSE ScriptContents \cup {SyntaxContent}

\* an Error object, or (isError FALSE) a thrown non-Error value
Err(isError, message, stack) ==
  [isError |-> isError, message |-> message, stack |-> stack]

NoErr == Err(FALSE, <<>>, <<>>)

\* The error a script throws when evaluated from file `path`: its message
\* mentions path occ times; the stack is the message followed by the frame
\* of the throwing file.
ThrownBy(content, path) ==
  LET message == Repeat(<<"x">> \o path, content.occ) \o <<"!">>
  IN IF content.isError
       THEN Err(TRUE, message, message \o <<"@">> \o path)
       ELSE Err(FALSE, message, <<>>)

SyntaxError == Err(TRUE, <<"s", "y", "n">>, <<"s", "y", "n">>)

\* Cannot find module '<path>'
NotFoundError(path) == Err(TRUE, <<"n", "f">> \o path, <<"n", "f">> \o path)

\* a loaded module: its export value, and the text it was evaluated from
Module(content) ==
  [hasDefault |-> content.hasDefault, config |-> LoadedConfig(content.cfg),
   code |-> content]

RestrictTo(f, S) == [k \in S |-> f[k]]

WithEntry(f, key, val) == [k \in (DOMAIN f) \cup {key} |-> IF k = key THEN val ELSE f[k]]

----
\* loadConfig: classification by suffix, and the loading primitives.

IsTypeModule(pkgType) == pkgType = "module"

IsJson(filePath) == EndsWith(filePath, <<".", "j", "s", "o", "n">>)

IsTs(filePath) == EndsWith(filePath, <<"t", "s">>)

IsJs(filePath) == EndsWith(filePath, <<"j", "s">>)

IsESM(filePath, pkgType) ==
  \/ \E type \in {<<"m", "j", "s">>, <<"m", "t", "s">>} : EndsWith(filePath, type)
  \/ /\ IsTypeModule(pkgType)
     /\ \E type \in {<<"j", "s">>, <<"t", "s">>} : EndsWith(filePath, type)

\* JSON5.parse(fs.readFileSync(filePath, 'utf8'))
Json5Parse(content) ==
  IF content.kind = "exports"
    THEN [ok |-> TRUE, value |-> LoadedConfig(content.cfg), err |-> NoErr]
    ELSE [ok |-> FALSE, value |-> Undefined, err |-> SyntaxError]

\* buildConfig(filePath, format): the compiler collaborator
BuildConfig(content, format) ==
  IF content.kind = "syntax"
    THEN [ok |-> FALSE, code |-> content, err |-> SyntaxError]
    ELSE [ok |-> TRUE, code |-> [content EXCEPT !.format = format], err |-> NoErr]

\* require(path) / dynamicImport(path, true): a cached module is returned as
\* it is; otherwise the file is read and evaluated, and cached when that
\* succeeds.  A path that is not absolute is a bare specifier, looked up as a
\* package and not found.
LoadModule(cache, files, path) ==
  IF path \in DOMAIN cache
    THEN [ok |-> TRUE, module |-> cache[path], err |-> NoErr, cache |-> cache]
    ELSE IF ~IsAbsolute(path) \/ path \notin DOMAIN files
      THEN [ok |-> FALSE, module |-> Undefined, err |-> NotFoundError(path),
            cache |-> cache]
      ELSE IF files[path].kind = "exports"
        THEN [ok |-> TRUE, module |-> Module(files[path]), err |-> NoErr,
              cache |-> WithEntry(cache, path, Module(files[path]))]
        ELSE [ok |-> FALSE, module |-> Undefined,
              err |-> IF files[path].kind = "throws"
                        THEN ThrownBy(files[path], path)
                        ELSE SyntaxError,
              cache |-> cache]

\* the export value of a loaded module
RawExports(module) ==
  IF module.hasDefault THEN [default |-> module.config] ELSE module.config

\* raw?.default
DefaultOf(raw) == IF Has(raw, "default") THEN raw["default"] ELSE Undefined

\* raw?.default ?? raw
DefaultOrWhole(raw) == IF Has(raw, "default") THEN raw["default"] ELSE raw

----
\* executeTypescriptModule: its steps.

\* TempFile with one suffix for both module systems
TempFileOneSuffix(filePath, isEsm) == filePath \o <<".", "m", "j", "s">>

\* `${filePath}.${isEsm ? 'm' : 'c'}js`
TempFile(filePath, isEsm) ==
  filePath \o <<".">> \o (IF isEsm THEN <<"m">> ELSE <<"c">>) \o <<"j", "s">>

\* fs.writeFileSync(tempFile, code)
WriteFile(files, path, code) == WithEntry(files, path, code)

\* require.resolve(tempFile): an absolute path of an existing file resolves
\* to itself; a bare specifier is looked up as a package and is not found
RequireResolve(files, path) ==
  [ok |-> IsAbsolute(path) /\ path \in DOMAIN files, path |-> path]

\* Invalidate that deletes nothing
InvalidateSkipped(cache, key) == cache

\* delete require.cache[key]
Invalidate(cache, key) == RestrictTo(cache, (DOMAIN cache) \ {key})

\* fs.unlinkSync(tempFile): fails when the file does not exist
Unlink(files, path) ==
  [ok |-> path \in DOMAIN files,
   files |-> RestrictTo(files, (DOMAIN files) \ {path})]

\* the catch block's rewriting of err.message and err.stack
RewriteError(err, tempFile, filePath) ==
  IF err.isError
    THEN Err(TRUE, Replace(err.message, tempFile, filePath),
             Replace(err.stack, tempFile, filePath))
    ELSE err

----
\* getUserConfig -> loadConfig -> executeTypescriptModule, one call at a time.

InitCall ==
  [configFilePath |-> <<>>, mode |-> "", isESM |-> FALSE, tempFile |-> <<>>,
   code |-> SyntaxContent, userConfig |-> Undefined, module |-> Undefined,
   err |-> NoErr, origErr |-> NoErr, strategies |-> {}, target |-> "none",
   logged |-> "none", loaded |-> FALSE, rethrown |-> FALSE,
   result |-> Undefined, prevCode |-> SyntaxContent]

LoadInit ==
  /\ src \in ConfigPaths
  /\ pkg \in PkgTypes
  /\ \E content \in ContentsFor(src) : fs = [p \in {src} |-> content]
  /\ requireCache = [p \in {OtherModule} |-> Module(Content("exports", FALSE, "plain", TRUE, 0))]
  /\ pc = "idle"
  /\ call = InitCall
  /\ ncalls = 0
  /\ mpc = "off" /\ mMode = "" /\ mConfig = Undefined /\ mOut = NoOutcome
  /\ procs = <<>>

\* lines 76-79, 93-102: entry of getUserConfig and its three branches
GetUserConfigEnter(configFilePath, mode) ==
  /\ pc = "idle"
  /\ ncalls < MaxCalls
  /\ ncalls' = ncalls + 1
  /\ IF configFilePath # <<>> /\ configFilePath \in DOMAIN fs
       THEN /\ pc' = "loadConfig"
            /\ call' = [InitCall EXCEPT !.prevCode = call.prevCode,
                                        !.configFilePath = configFilePath,
                                        !.mode = mode,
                                        !.userConfig = [plugins |-> <<>>]]
       ELSE IF configFilePath # <<>>
         THEN /\ pc' = "exited"
              /\ call' = [InitCall EXCEPT !.prevCode = call.prevCode,
                                          !.configFilePath = configFilePath,
                                          !.mode = mode,
                                          !.logged = "error"]
         ELSE /\ pc' = "merge"
              /\ call' = [InitCall EXCEPT !.prevCode = call.prevCode,
                                          !.mode = mode,
                                          !.userConfig = [plugins |-> <<>>],
                                          !.logged = "debug"]
  /\ UNCHANGED <<fs, requireCache, pkg, src, mergeVars, procs>>

\* lines 108-133: loadConfig up to the typed-source branch
LoadConfigPlain ==
  /\ pc = "loadConfig"
  /\ LET filePath == call.configFilePath
         isESM == IsESM(filePath, pkg)
         c0 == [call EXCEPT !.isESM = isESM, !.userConfig = Undefined]
     IN IF IsJson(filePath)
          THEN LET r == Json5Parse(fs[filePath])
               IN /\ requireCache' = requireCache
                  /\ IF r.ok
                       THEN /\ pc' = "merge"
                            /\ call' = [c0 EXCEPT !.userConfig = r.value,
                                                  !.strategies = {"parse"},
                                                  !.loaded = TRUE]
                       ELSE /\ pc' = "caught"
                            /\ call' = [c0 EXCEPT !.err = r.err]
          ELSE IF IsJs(filePath)
            THEN LET r == LoadModule(requireCache, fs, filePath)
                 IN /\ requireCache' = r.cache
                    /\ IF r.ok
                         THEN /\ pc' = IF IsTs(filePath) THEN "build" ELSE "merge"
                              /\ call' =
                                   [c0 EXCEPT
                                      !.userConfig =
                                        IF isESM THEN DefaultOf(RawExports(r.module))
                                                 ELSE RawExports(r.module),
                                      !.strategies = {IF isESM THEN "import" ELSE "require"},
                                      !.loaded = ~IsTs(filePath)]
                         ELSE /\ pc' = "caught"
                              /\ call' = [c0 EXCEPT !.err = r.err]
            ELSE /\ requireCache' = requireCache
                 /\ pc' = IF IsTs(filePath) THEN "build" ELSE "merge"
                 /\ call' = [c0 EXCEPT !.loaded = ~IsTs(filePath)]
  /\ UNCHANGED <<fs, pkg, src, ncalls, mergeVars, procs>>

\* line 136: buildConfig(filePath, isESM ? 'esm' : 'cjs')
LoadConfigBuild ==
  /\ pc = "build"
  /\ LET format == IF call.isESM THEN "esm" ELSE "cjs"
         r == BuildConfig(fs[call.configFilePath], format)
     IN IF r.ok
          THEN /\ pc' = "exec_write"
               /\ call' = [call EXCEPT !.code = r.code, !.target = format]
          ELSE /\ pc' = "caught"
               /\ call' = [call EXCEPT !.err = r.err, !.target = format]
  /\ UNCHANGED <<fs, requireCache, pkg, src, ncalls, mergeVars, procs>>

\* lines 146-149: name the artifact and write the code to it
ExecWrite ==
  /\ pc = "exec_write"
  /\ LET tempFile == TempFile(call.configFilePath, call.isESM)
     IN /\ fs' = WriteFile(fs, tempFile, call.code)
        /\ call' = [call EXCEPT !.tempFile = tempFile]
  /\ pc' = "exec_invalidate"
  /\ UNCHANGED <<requireCache, pkg, src, ncalls, mergeVars, procs>>

\* line 151: delete require.cache[require.resolve(tempFile)], outside the try
ExecInvalidate ==
  /\ pc = "exec_invalidate"
  /\ LET r == RequireResolve(fs, call.tempFile)
     IN IF r.ok
          THEN /\ requireCache' = Invalidate(requireCache, r.path)
               /\ pc' = "exec_load"
               /\ call' = call
          ELSE /\ requireCache' = requireCache
               /\ pc' = "caught"
               /\ call' = [call EXCEPT !.err = NotFoundError(call.tempFile),
                                       !.userConfig = Undefined]
  /\ UNCHANGED <<fs, pkg, src, ncalls, mergeVars, procs>>

\* lines 153-156: load the artifact and take its default export or whole value
ExecLoad ==
  /\ pc = "exec_load"
  /\ LET r == LoadModule(requireCache, fs, call.tempFile)
     IN /\ requireCache' = r.cache
        /\ IF r.ok
             THEN /\ pc' = "exec_unlink"
                  /\ call' = [call EXCEPT !.module = r.module,
                                          !.userConfig = DefaultOrWhole(RawExports(r.module))]
             ELSE /\ pc' = "exec_catch"
                  /\ call' = [call EXCEPT !.err = r.err, !.origErr = r.err]
  /\ UNCHANGED <<fs, pkg, src, ncalls, mergeVars, procs>>

\* lines 157-165: the catch block: unlink, rewrite, rethrow
ExecCatch ==
  /\ pc = "exec_catch"
  /\ LET u == Unlink(fs, call.tempFile)
     IN /\ fs' = u.files
        /\ call' = IF u.ok
                     THEN [call EXCEPT
                             !.err = RewriteError(call.err, call.tempFile,
                                                  call.configFilePath),
                             !.rethrown = TRUE,
                             !.userConfig = Undefined]
                     ELSE [call EXCEPT !.err = NotFoundError(call.tempFile),
                                       !.userConfig = Undefined]
  /\ pc' = "caught"
  /\ UNCHANGED <<requireCache, pkg, src, ncalls, mergeVars, procs>>

\* lines 168-170 and 138-142: unlink, return through loadConfig
ExecUnlink ==
  /\ pc = "exec_unlink"
  /\ LET u == Unlink(fs, call.tempFile)
     IN /\ fs' = u.files
        /\ IF u.ok
             THEN /\ pc' = "merge"
                  /\ call' = [call EXCEPT !.strategies = {"execute"},
                                          !.loaded = TRUE]
             ELSE /\ pc' = "caught"
                  /\ call' = [call EXCEPT !.err = NotFoundError(call.tempFile),
                                          !.userConfig = Undefined]
  /\ UNCHANGED <<requireCache, pkg, src, ncalls, mergeVars, procs>>

\* lines 82-92: the catch of getUserConfig: log, process.exit(1)
GetUserConfigCatch ==
  /\ pc = "caught"
  /\ pc' = "exited"
  /\ call' = [call EXCEPT !.logged = "warn+error"]
  /\ UNCHANGED <<fs, requireCache, pkg, src, ncalls, mergeVars, procs>>

\* line 104: return mergeModeConfig(commandArgs.mode, userConfig)
GetUserConfigMerge ==
  /\ pc = "merge"
  /\ LET out == MergeModeConfig(call.mode, call.userConfig)
     IN IF out.threw
          THEN /\ pc' = "escaped"
               /\ call' = call
          ELSE /\ pc' = "returned"
               /\ call' = [call EXCEPT !.result = out.value]
  /\ UNCHANGED <<fs, requireCache, pkg, src, ncalls, mergeVars, procs>>

\* The caller goes on; the configuration file may have been edited before
\* the next call.  prevCode remembers the code the finished call loaded.
NextCall(content) ==
  /\ pc \in {"returned", "escaped"}
  /\ ncalls < MaxCalls
  /\ pc' = "idle"
  /\ call' = [InitCall EXCEPT
                !.prevCode = IF IsUndefined(call.module) THEN SyntaxContent
                                                         ELSE call.module.code]
  /\ fs' = WithEntry(fs, src, content)
  /\ UNCHANGED <<requireCache, pkg, src, ncalls, mergeVars, procs>>

LoadNext ==
  \/ \E p \in {<<>>, src, MissingPath}, mode \in {"", "dev"} : GetUserConfigEnter(p, mode)
  \/ LoadConfigPlain
  \/ LoadConfigBuild
  \/ ExecWrite
  \/ ExecInvalidate
  \/ ExecLoad
  \/ ExecCatch
  \/ ExecUnlink
  \/ GetUserConfigCatch
  \/ GetUserConfigMerge
  \/ \E content \in ContentsFor(src) : NextCall(content)

SpecLoad == LoadInit /\ [][LoadNext]_vars

----
\* Two callers run executeTypescriptModule in one process.  An async function
\* runs without interruption up to its first await, and from the resumption
\* to its end: the only await is the one on dynamicImport (isEsm).  With
\* isEsm false the body holds no await and runs in one piece.

ProcIds == {"p1", "p2"}

\* typed sources handed to executeTypescriptModule
ExecPaths == {<<"/", "c", ".", "t", "s">>, <<"/", "d", ".", "t", "s">>}

\* the compiled code a caller passes, marked with the caller that passes it
CodeOf(p, kind, isEsm) ==
  WithEntry(BuildConfig(Content(kind, TRUE, "plain", TRUE, 1),
                        IF isEsm THEN "esm" ELSE "cjs").code,
            "by", p)

InitProc(p, filePath, isEsm, kind) ==
  [pc |-> "idle", filePath |-> filePath, isEsm |-> isEsm,
   code |-> CodeOf(p, kind, isEsm), tempFile |-> TempFile(filePath, isEsm),
   module |-> Undefined, err |-> NoErr, userConfig |-> Undefined,
   overwrote |-> "none", loadedBy |-> "none", deletedOf |-> "none",
   loadMissed |-> FALSE, unlinkFailed |-> FALSE]

\* who wrote the file now at path ("none": no such file)
WriterOf(files, path) == IF path \in DOMAIN files THEN files[path].by ELSE "none"

ConcInit ==
  /\ \E paths \in [ProcIds -> ExecPaths], esm \in [ProcIds -> BOOLEAN],
        kinds \in [ProcIds -> {"exports", "throws"}] :
       procs = [p \in ProcIds |-> InitProc(p, paths[p], esm[p], kinds[p])]
  /\ fs = <<>>
  /\ requireCache = [p \in {OtherModule} |-> Module(Content("exports", FALSE, "plain", TRUE, 0))]
  /\ pkg = "none" /\ src = <<>> /\ pc = "off" /\ call = InitCall /\ ncalls = 0
  /\ mpc = "off" /\ mMode = "" /\ mConfig = Undefined /\ mOut = NoOutcome

\* lines 157-165 (failed) and 168-170 (loaded) for caller p, given the
\* filesystem and the outcome r of the load
Finish(me, files, r) ==
  LET u == Unlink(files, me.tempFile)
      seen == [me EXCEPT !.deletedOf = WriterOf(files, me.tempFile),
                         !.unlinkFailed = ~u.ok,
                         !.module = r.module,
                         !.loadedBy = IF r.ok THEN r.module.code.by ELSE "none"]
  IN [files |-> u.files,
      proc |-> IF ~u.ok
                 THEN [seen EXCEPT !.pc = "thrown",
                                   !.err = NotFoundError(me.tempFile)]
                 ELSE IF r.ok
                   THEN [seen EXCEPT !.pc = "done",
                                     !.userConfig = DefaultOrWhole(RawExports(r.module))]
                   ELSE [seen EXCEPT !.pc = "thrown",
                                     !.err = RewriteError(r.err, me.tempFile, me.filePath)]]

\* lines 146-151, and with isEsm false the rest of the body as well.  The
\* paths of ExecPaths are absolute, so require.resolve finds the file just
\* written.
ConcStart(p) ==
  /\ procs[p].pc = "idle"
  /\ LET me == [procs[p] EXCEPT !.overwrote = WriterOf(fs, procs[p].tempFile)]
         written == WriteFile(fs, me.tempFile, me.code)
         resolved == RequireResolve(written, me.tempFile)
         cache == Invalidate(requireCache, resolved.path)
     IN IF me.isEsm
          THEN /\ fs' = written
               /\ requireCache' = cache
               /\ procs' = [procs EXCEPT ![p] = [me EXCEPT !.pc = "awaiting"]]
          ELSE LET r == LoadModule(cache, written, me.tempFile)
                   f == Finish(me, written, r)
               IN /\ fs' = f.files
                  /\ requireCache' = r.cache
                  /\ procs' = [procs EXCEPT ![p] = f.proc]
  /\ UNCHANGED <<pkg, src, pc, call, ncalls, mergeVars>>

\* line 154, isEsm: the awaited dynamicImport reads and evaluates the artifact
ConcImport(p) ==
  /\ procs[p].pc = "awaiting"
  /\ LET me == procs[p]
         r == LoadModule(requireCache, fs, me.tempFile)
     IN /\ requireCache' = r.cache
        /\ procs' = [procs EXCEPT ![p] =
                       [me EXCEPT !.pc = IF r.ok THEN "loaded" ELSE "failed",
                                  !.module = r.module,
                                  !.err = r.err,
                                  !.loadMissed = me.tempFile \notin DOMAIN fs]]
  /\ UNCHANGED <<fs, pkg, src, pc, call, ncalls, mergeVars>>

\* the continuation after the await: lines 155-170
ConcResume(p) ==
  /\ procs[p].pc \in {"loaded", "failed"}
  /\ LET me == procs[p]
         f == Finish(me, fs, [ok |-> me.pc = "loaded", module |-> me.module,
                              err |-> me.err])
     IN /\ fs' = f.files
        /\ procs' = [procs EXCEPT ![p] = f.proc]
  /\ UNCHANGED <<requireCache, pkg, src, pc, call, ncalls, mergeVars>>

ConcNext == \E p \in ProcIds : ConcStart(p) \/ ConcImport(p) \/ ConcResume(p)

SpecConc == ConcInit /\ [][ConcNext]_vars

----
\* mergeModeConfig on its own.

MergeInit ==
  /\ mpc = "start"
  /\ mMode \in Modes
  /\ mConfig \in UserConfigs
  /\ mOut = NoOutcome
  /\ fs = <<>> /\ requireCache = <<>> /\ pkg = "none" /\ src = <<>>
  /\ pc = "off" /\ call = InitCall /\ ncalls = 0 /\ procs = <<>>

CallMerge ==
  /\ mpc = "start"
  /\ mOut' = MergeModeConfig(mMode, mConfig)
  /\ mpc' = "done"
  /\ UNCHANGED <<mMode, mConfig, loadVars, procs>>

MergeNext == CallMerge

SpecMerge == MergeInit /\ [][MergeNext]_vars

----
\* Properties of mergeModeConfig (SpecMerge).

\* the identifier of a plugin entry: the string itself, or element 0 of a pair
EntryId(entry) == IF entry.isArray THEN entry.arr[1] ELSE entry.str

\* the override the mode selects
MOverride == mConfig.modeConfig[mMode]

MergedWithPlugins ==
  /\ mpc = "done"
  /\ ModeSelected(mMode, mConfig)
  /\ Has(MOverride, "plugins")

NamedBy(O, id) == \E k \in DOMAIN O : EntryId(O[k]) = id

InBase(B, id) == \E i \in DOMAIN B : EntryId(B[i]) = id

IsFirstOf(B, i) == \A j \in 1..(i - 1) : EntryId(B[j]) # EntryId(B[i])

\* the last override entry with identifier id
LastOf(O, id) ==
  O[CHOOSE k \in DOMAIN O :
      /\ EntryId(O[k]) = id
      /\ \A j \in DOMAIN O : EntryId(O[j]) = id => j <= k]

NotInBase(B, entry) == ~InBase(B, EntryId(entry))

\* the override entries whose identifier the base list lacks, in override order
NewEntries(B, O) == SelectSeq(O, LAMBDA entry : NotInBase(B, entry))

\* the reconciled list, stated position by position
ExpectedPlugins(B, O) ==
  [i \in 1..(Len(B) + Len(NewEntries(B, O))) |->
     IF i > Len(B)
       THEN NewEntries(B, O)[i - Len(B)]
       ELSE IF NamedBy(O, EntryId(B[i])) /\ IsFirstOf(B, i)
         THEN LastOf(O, EntryId(B[i]))
         ELSE B[i]]

\* C1: when the mode selects an override with a plugins array, the returned
\* plugins list is the base list with each override entry whose identifier
\* occurs in the base list written at that identifier's index in the base
\* list, followed by the other override entries in override order; base
\* entries the override does not name keep index and value.
C1_PluginsReconciled ==
  MergedWithPlugins =>
    LET B == mConfig.plugins
        O == MOverride.plugins
        R == mOut.value.plugins
        N == NewEntries(B, O)
    IN /\ Len(R) = Len(B) + Len(N)
       /\ \A i \in 1..Len(B) :
            /\ ~NamedBy(O, EntryId(B[i])) => R[i] = B[i]
            /\ (NamedBy(O, EntryId(B[i])) /\ IsFirstOf(B, i))
                 => R[i] = LastOf(O, EntryId(B[i]))
       /\ \A j \in 1..Len(N) : R[Len(B) + j] = N[j]

\* base [A, (B,1)] merged with override [(B,2), C] gave [A, (B,2), C]
C1_Witness ==
  /\ MergedWithPlugins
  /\ mConfig.plugins = <<Bare("A"), Pair("B", 1)>>
  /\ MOverride.plugins = <<Pair("B", 2), Bare("C")>>
  /\ mOut.value.plugins = <<Bare("A"), Pair("B", 2), Bare("C")>>

\* C2: the plugins list returned by a merge holds at most one entry per
\* plugin identifier, for every base list and every override list.
C2_OneEntryPerIdentifier ==
  (mpc = "done" /\ ModeSelected(mMode, mConfig)) =>
    LET R == mOut.value.plugins
    IN \A i, j \in DOMAIN R : EntryId(R[i]) = EntryId(R[j]) => i = j

\* C7: when the mode selects an override, the result is the shallow merge:
\* every field other than plugins is the override's if the override defines
\* it and the configuration's otherwise, plugins is the reconciled list (the
\* base list when the override has no plugins array), and the argument
\* object is as it was.
C7_ShallowMerge ==
  (mpc = "done" /\ ModeSelected(mMode, mConfig)) =>
    LET R == mOut.value
        O == MOverride
    IN /\ ~mOut.threw
       /\ DOMAIN R = (DOMAIN mConfig) \cup (DOMAIN O) \cup {"plugins"}
       /\ \A f \in (DOMAIN R) \ {"plugins"} :
            R[f] = IF f \in DOMAIN O THEN O[f] ELSE mConfig[f]
       /\ R.plugins = IF Has(O, "plugins")
                        THEN ExpectedPlugins(mConfig.plugins, O.plugins)
                        ELSE mConfig.plugins
       /\ mOut.inputAfter = mConfig

\* an override that sets outDir and adds a plugin, over a configuration
\* that has its own outDir
C7_Witness ==
  /\ mpc = "done"
  /\ ModeSelected(mMode, mConfig)
  /\ Has(mConfig, "outDir") /\ Has(MOverride, "outDir")
  /\ mOut.value.outDir = [b |-> 2]
  /\ Has(MOverride, "plugins")
  /\ Len(mOut.value.plugins) > Len(mConfig.plugins)
  /\ mOut.inputAfter = mConfig

----
\* Properties of getUserConfig, loadConfig and executeTypescriptModule
\* (SpecLoad).

\* the call has left executeTypescriptModule (returned or raised) after
\* writing its artifact
ExecLeft ==
  /\ call.tempFile # <<>>
  /\ pc \in {"merge", "caught", "returned", "escaped", "exited"}

\* C3: once executeTypescriptModule has written the artifact, the artifact is
\* gone by the time the call returns or raises, on every path.
C3_ArtifactDeleted == ExecLeft => call.tempFile \notin DOMAIN fs

Rethrown == pc \in {"caught", "exited"} /\ call.rethrown /\ call.err.isError

\* C4: the Error re-raised after a failed load mentions the artifact path
\* nowhere in its message or stack, and mentions the source path wherever the
\* original text mentioned the artifact path.
C4_ErrorRewritten ==
  Rethrown =>
    /\ CountOcc(call.err.message, call.tempFile) = 0
    /\ CountOcc(call.err.stack, call.tempFile) = 0
    /\ CountOcc(call.origErr.message, call.tempFile) > 0
         => CountOcc(call.err.message, call.configFilePath) > 0
    /\ CountOcc(call.origErr.stack, call.tempFile) > 0
         => CountOcc(call.err.stack, call.configFilePath) > 0

HasExt(path, exts) == \E e \in exts : EndsWith(path, e)

ScriptExts ==
  {<<".", "j", "s">>, <<".", "m", "j", "s">>, <<".", "c", "j", "s">>,
   <<".", "t", "s">>, <<".", "m", "t", "s">>, <<".", "c", "t", "s">>}

\* the module system the suffix and the manifest call for
ExpectedEsm(path, pkgType) ==
  \/ HasExt(path, {<<".", "m", "j", "s">>, <<".", "m", "t", "s">>})
  \/ /\ pkgType = "module"
     /\ HasExt(path, {<<".", "j", "s">>, <<".", "t", "s">>})

\* C5: a script is loaded as asynchronous-import-based exactly when its
\* suffix is .mjs/.mts, or the manifest says type module and the suffix is
\* .js/.ts; that choice is the loader of a plain script, and the compiler
\* target and the artifact's module system of a typed source.
C5_ModuleSystem ==
  (/\ pc \notin {"off", "idle", "loadConfig"}
   /\ call.configFilePath = src
   /\ HasExt(src, ScriptExts)) =>
    LET esm == ExpectedEsm(call.configFilePath, pkg)
    IN /\ call.isESM = esm
       /\ "import" \in call.strategies => esm
       /\ "require" \in call.strategies => ~esm
       /\ call.target # "none" => call.target = (IF esm THEN "esm" ELSE "cjs")
       /\ call.tempFile # <<>> =>
            call.tempFile = call.configFilePath \o
                              (IF esm THEN <<".", "m", "j", "s">>
                                      ELSE <<".", "c", "j", "s">>)

\* C6: a loadConfig call that completes without failing has a configuration
\* object, produced by exactly one loading strategy.
C6_NoPartialSuccess ==
  (call.loaded /\ pc \in {"merge", "returned", "escaped"}) =>
    /\ ~IsUndefined(call.userConfig)
    /\ Cardinality(call.strategies) = 1

\* C8: getUserConfig returns only when no path was given or the file exists
\* and loaded; a missing file and a failed load are logged and end the process
\* before the merge; nothing else escapes.
C8_ReturnOrExit ==
  /\ pc # "escaped"
  /\ pc = "returned" =>
       \/ call.configFilePath = <<>> /\ call.logged = "debug"
       \/ call.configFilePath \in DOMAIN fs /\ call.loaded
  /\ pc = "exited" =>
       /\ call.configFilePath # <<>>
       /\ call.logged \in {"error", "warn+error"}
       /\ IsUndefined(call.result)
  /\ (pc = "merge" /\ call.configFilePath # <<>>) => call.loaded

\* C9: the cache entry of the call's own artifact is deleted between the
\* write and the load, no step removes any other cache entry, and the module
\* a call gets from the load was evaluated from the code of that call.
C9_FreshLoad ==
  [][/\ \A k \in DOMAIN requireCache :
          k \notin DOMAIN requireCache' =>
            (pc = "exec_invalidate" /\ k = call.tempFile)
     /\ (pc = "exec_invalidate" /\ pc' = "exec_load") =>
          (call.tempFile \in DOMAIN fs /\ call.tempFile \notin DOMAIN requireCache')
     /\ pc' = "exec_unlink" => call'.module.code = call'.code]_vars

\* a second load of the same source, after the file was edited, got the new
\* code although the first load's module had been cached; the unrelated
\* cache entry is still there
C9_Witness ==
  /\ pc = "exec_unlink"
  /\ ncalls = 2
  /\ call.prevCode.kind = "exports"
  /\ call.prevCode # call.code
  /\ call.module.code = call.code
  /\ OtherModule \in DOMAIN requireCache

----
\* Properties of concurrent executeTypescriptModule calls (SpecConc).

SameArtifact(p, q) ==
  /\ procs[p].filePath = procs[q].filePath
  /\ procs[p].isEsm = procs[q].isEsm

\* caller p met another caller's artifact, or missed its own
Interfered(p) ==
  \/ procs[p].overwrote \notin {"none", p}
  \/ procs[p].loadedBy \notin {"none", p}
  \/ procs[p].deletedOf \notin {"none", p}
  \/ procs[p].loadMissed
  \/ procs[p].unlinkFailed

\* C10: a call is disturbed only by a call for the same source path and the
\* same module system; calls that differ in either never touch each other's
\* artifact.
C10_OnlySameNameRaces ==
  \A p \in ProcIds :
    Interfered(p) => \E q \in ProcIds \ {p} : SameArtifact(p, q)

\* two calls for one path and module system: one has loaded the code the
\* other wrote, and the other's unlink found the artifact gone
C10_Witness ==
  \E p \in ProcIds, q \in ProcIds :
    /\ p # q
    /\ SameArtifact(p, q)
    /\ procs[p].loadedBy = q
    /\ procs[q].unlinkFailed

====
